---- MODULE Spec2Model ----
(***************************************************************************)
(* Model of the event relay of src/scripts/claude_event_relay.py:          *)
(* ClaudeEventRelay.run, heartbeat_loop, event_subscription_loop,          *)
(* setup_redis_subscription, register, unregister, forward_event,          *)
(* make_jsonrpc_request, shutdown and the signal handler of main.          *)
(*                                                                         *)
(* The relay runs on one asyncio event loop: the code between two awaits   *)
(* is one atomic step, so every action below is the code from one await to *)
(* the next.  A JSON-RPC call is two steps, the send (request_counter is   *)
(* incremented, the coroutine waits in run_in_executor) and the response.  *)
(* The signal handler only assigns running, so it interleaves as a step.   *)
(***************************************************************************)
EXTENDS Integers, Sequences, FiniteSets, TLC

\* ----------------------------------------------------------------- bounds
\* heartbeat requests the heartbeat loop may send in one run
MaxHeartbeats == 3
\* failures the event transport may inject (connect, subscribe, listen)
MaxFaults == 1
\* messages the event transport may deliver in one run
MaxEvents == 1
\* messages delivered when the subscription loop is checked on its own
MaxFeed == 2
\* failures the event transport may inject when reconnection is checked on its own
MaxOutages == 6
\* calls of make_jsonrpc_request when it is checked on its own
MaxCalls == 2
\* heartbeat requests when the heartbeat loop is checked on its own
MaxBeats == 4

\* ------------------------------------------------------ program constants
max_consecutive_failures == 3
initial_reconnect_delay == 1
max_reconnect_delay == 30
heartbeat_interval == 15
reregistration_delay == 5

\* self.instance_id, and some other instance's id
instance_id == "relay-1"
other_instance_id == "relay-2"

\* self.event_channels: one wildcard pattern and one exact channel
event_channels == <<"task.*", "status">>

None == "None"

VARIABLES
    debug,                 \* self.debug (configuration, fixed per run)
    REDIS_AVAILABLE,       \* the redis package could be imported
    running,               \* self.running
    registered,            \* self.registered
    request_counter,       \* self.request_counter
    redis_client,          \* self.redis_client: None or "client"
    pubsub,                \* self.pubsub: None or "pubsub"
    subscribed_channels,   \* self.subscribed_channels
    metrics,               \* self.metrics
    consecutive_failures,  \* local of heartbeat_loop
    reconnect_delay,       \* local of event_subscription_loop
    runPc,                 \* position of run() / shutdown()
    hbPc,                  \* position of the heartbeat_loop task
    subPc,                 \* position of the event_subscription_loop task
    setupIdx,              \* setup_redis_subscription: 0 = awaiting ping, k = awaiting k-th subscribe
    inflight,              \* request_id of the call each unit of work awaits (0: none)
    output,                \* the lines printed on stdout by forward_event
    calls,                 \* history: the forward_event calls that printed (origin, channel, payload)
    delivered,             \* history: messages the transport delivered to listen()
    sent,                  \* history: requests sent, per method
    clientsOpen,           \* history: redis clients created and not yet closed
    heartbeatsLeft,        \* budget: heartbeat requests the run may still send
    faultsLeft,            \* budget: failures the event transport may still inject
    eventsLeft,            \* budget: messages the event transport may still deliver
    hbFailStreak,          \* history: heartbeat calls that raised since the last one that returned or the last re-registration that reset the counter
    hbOwesRetry,           \* history: a heartbeat-loop re-registration failed and the loop sent no register since
    hbWaited,              \* history: seconds the heartbeat loop slept since its last heartbeat request, the interval sleep excluded
    reregOK,               \* history: FALSE from a subscription-loop error until its re-registration succeeds
    subFailStreak,         \* history: failures of the subscription loop (failed setups, errors) since the last successful setup
    connectFailStreak,     \* history: failed calls of setup_redis_subscription since the last successful one
    response,              \* make_jsonrpc_request called on its own: what the HTTP exchange ended with
    returned,              \* make_jsonrpc_request called on its own: what the caller got ("raised" or the result)
    hookInput,             \* hook bridge: <<>>, or <<what the process read and what the server answers>>
    hookExit,              \* hook bridge: <<>>, or <<the exit code of process_hook>>
    registersOK            \* history: register() calls that returned True

cfgVars == <<debug, REDIS_AVAILABLE>>
connVars == <<redis_client, pubsub, subscribed_channels, clientsOpen>>
hbHist == <<hbFailStreak, hbOwesRetry, hbWaited>>
subHist == <<reregOK, subFailStreak, connectFailStreak>>
rpcVars == <<response, returned>>
hookVars == <<hookInput, hookExit>>
aux == <<rpcVars, hookVars, registersOK>>
budgets == <<heartbeatsLeft, faultsLeft, eventsLeft>>
vars == <<debug, REDIS_AVAILABLE, running, registered, request_counter, redis_client,
          pubsub, subscribed_channels, metrics, consecutive_failures, reconnect_delay,
          runPc, hbPc, subPc, setupIdx, inflight, output, calls, delivered, sent,
          clientsOpen, heartbeatsLeft, faultsLeft, eventsLeft, hbFailStreak, hbOwesRetry,
          hbWaited, reregOK, subFailStreak, connectFailStreak, response, returned,
          hookInput, hookExit, registersOK>>

\* ------------------------------------------------------------ JSON values
\* A decoded JSON value, by the keys forward_event looks at:
\*   shape       object / array / string / number / null
\*   type        value of the 'type' key ("none": no such key)
\*   payload     the 'payload' key: absent, a non-dict value, or a dict
\*   instanceId  payload['instanceId']: "absent" or an instance id
\*   params      payload['params']: absent, a non-dict value, or a dict
\*   command     params['command']: absent, a string with the marker
\*               'claude_event_relay.py', another string, or a non-string
\*   raw         the value of the 'raw' key ("": no such key)
Json(shape, type, payload, iid, params, command, raw) ==
    [shape |-> shape, type |-> type, payload |-> payload, instanceId |-> iid,
     params |-> params, command |-> command, raw |-> raw]

NonObject(shape) == Json(shape, "none", "absent", "absent", "absent", "absent", "")

\* objects as ClaudeBench publishes them: {type, payload: {instanceId, params: {command}}}
EventObject(payload, iid, params, command) ==
    Json("object", "task.created", payload, iid, params, command, "")

InstanceIds == {"absent", instance_id, other_instance_id}

ObjectValues ==
    {EventObject("absent", "absent", "absent", "absent"),
     EventObject("nondict", "absent", "absent", "absent")}
    \cup {EventObject("dict", i, "absent", "absent") : i \in InstanceIds}
    \cup {EventObject("dict", i, "nondict", "absent") : i \in InstanceIds}
    \cup {EventObject("dict", i, "dict", c) :
              i \in InstanceIds,
              c \in {"absent", "marker", "other", "nonstring"}}

JsonValues == ObjectValues \cup {NonObject(s) : s \in {"array", "string", "number", "null"}}

\* the dict register() forwards (lines 214-219) and the one unregister() forwards (239-243)
RelayReady == Json("object", "relay_ready", "absent", "absent", "absent", "absent", "")
RelayStopping == Json("object", "relay_stopping", "absent", "absent", "absent", "absent", "")

\* ------------------------------------------------------ transport messages
\* The data of a message as the client hands it over (decode_responses=True):
\* a string that is the serialisation of a JSON value, a string that is no
\* JSON document, or (in acknowledgements) an int, the subscription count.
Wire(v) == [enc |-> "json", value |-> v, text |-> ""]
Garbage(t) == [enc |-> "text", value |-> NonObject("null"), text |-> t]
Count == [enc |-> "int", value |-> NonObject("number"), text |-> ""]

\* lines 383-386 with the fallback passing the text on as a bare string
DecodeData_BareString(data) ==
    IF data.enc \in {"json", "int"} THEN data.value ELSE NonObject("string")

\* line 383 with the fallback of lines 384-386: a str is parsed, anything
\* else is passed on as it is; undecodable text becomes {'raw': text}
DecodeData(data) ==
    IF data.enc \in {"json", "int"} THEN data.value
    ELSE Json("object", "none", "absent", "absent", "absent", "absent", data.text)

Message(type, pattern, channel, data) ==
    [type |-> type, pattern |-> pattern, channel |-> channel, data |-> data]

\* message.get('channel') or message.get('pattern') of line 378
MessageChannel(m) == IF m.channel # None THEN m.channel ELSE m.pattern

\* acknowledgements and other control messages of the transport
ControlMessages ==
    {Message(t, None, "status", Count) : t \in {"subscribe", "psubscribe", "unsubscribe"}}

\* the messages the subscription loop is checked with on its own: every JSON
\* value on the pattern subscription, some on the exact channel, text that is
\* no JSON, and the control messages
AllMessages ==
    {Message("pmessage", "task.*", "task.created", Wire(v)) : v \in JsonValues}
    \cup {Message("message", None, "status", Wire(v)) :
              v \in {EventObject("absent", "absent", "absent", "absent"),
                     EventObject("dict", instance_id, "absent", "absent"),
                     NonObject("string")}}
    \cup {Message("message", None, "status", Garbage("not json"))}
    \cup ControlMessages

\* the messages the full relay model draws from: one for each way the
\* handling of a message ends (forwarded, filtered, raising, not a payload)
CoreMessages ==
    {Message("pmessage", "task.*", "task.created",
             Wire(EventObject("dict", other_instance_id, "absent", "absent"))),
     Message("pmessage", "task.*", "task.created",
             Wire(EventObject("dict", instance_id, "absent", "absent"))),
     Message("message", None, "status", Wire(NonObject("array"))),
     Message("subscribe", None, "status", Count)}

\* ------------------------------------------------------------ forward_event
\* the instance-id test moved under `if isinstance(params, dict)` (line 122):
\* only events that carry a params dict are compared with the relay's id
FilteredOwnInstance_UnderParams(ed) ==
    /\ ed.shape = "object" /\ ed.payload = "dict" /\ ed.params = "dict"
    /\ ed.instanceId = instance_id

\* lines 107-118: the event's payload dict names this relay's instance id
FilteredOwnInstance(ed) ==
    ed.shape = "object" /\ ed.payload = "dict" /\ ed.instanceId = instance_id

\* lines 121-128 applied only to events that name an instance
FilteredRelayCommand_NeedsInstanceId(ed) ==
    /\ ed.shape = "object" /\ ed.payload = "dict" /\ ed.params = "dict"
    /\ ed.command = "marker" /\ ed.instanceId # "absent"

\* lines 121-128: payload.params.command contains 'claude_event_relay.py'
FilteredRelayCommand(ed) ==
    /\ ed.shape = "object" /\ ed.payload = "dict" /\ ed.params = "dict"
    /\ ed.command = "marker"

\* line 124: `'claude_event_relay.py' in command` raises TypeError when command
\* is a number or null (reached only when the instance-id check did not return)
RaisesBeforePrint(ed) ==
    /\ ed.shape = "object" /\ ed.payload = "dict" /\ ed.params = "dict"
    /\ ~FilteredOwnInstance(ed)
    /\ ed.command = "nonstring"

\* lines 140-141: event_data.get('type') raises AttributeError when debug is
\* on and event_data is not a dict; the line is printed and counted by then
RaisesAfterPrint(ed, dbg) == dbg /\ ed.shape # "object"

Prints(ed) ==
    ~FilteredOwnInstance(ed) /\ ~FilteredRelayCommand(ed) /\ ~RaisesBeforePrint(ed)

\* lines 131-134: the printed envelope; the channel argument is not part of it
Envelope(channel, ed) == [timestamp |-> "now", data |-> ed]

\* line 138 with the increment on the wrong counter
CountForwarded_AsReceived(m) == [m EXCEPT !.events_received = @ + 1]

\* line 138
CountForwarded(m) == [m EXCEPT !.events_forwarded = @ + 1]

\* forward_event putting the new line in front of the lines written so far
ForwardEvent_Prepends(origin, channel, ed, m) ==
    IF Prints(ed)
    THEN [output  |-> <<Envelope(channel, ed)>> \o output,
          calls   |-> Append(calls, [origin |-> origin, channel |-> channel, payload |-> ed]),
          metrics |-> CountForwarded(m),
          raised  |-> RaisesAfterPrint(ed, debug)]
    ELSE [output  |-> output,
          calls   |-> calls,
          metrics |-> m,
          raised  |-> RaisesBeforePrint(ed)]

\* line 137 left out: nothing is written
PrintLine_Nothing(channel, ed) == output

\* line 137: the envelope is written as one more line of stdout
PrintLine(channel, ed) == Append(output, Envelope(channel, ed))

\* forward_event(channel, event_data) on metrics m: what it leaves behind
ForwardEvent(origin, channel, ed, m) ==
    IF Prints(ed)
    THEN [output  |-> PrintLine(channel, ed),
          calls   |-> Append(calls, [origin |-> origin, channel |-> channel, payload |-> ed]),
          metrics |-> CountForwarded(m),
          raised  |-> RaisesAfterPrint(ed, debug)]
    ELSE [output  |-> output,
          calls   |-> calls,
          metrics |-> m,
          raised  |-> RaisesBeforePrint(ed)]

\* ------------------------------------------------------ make_jsonrpc_request
\* lines 145-146 without the increment: the counter's value is used as it is
NextRequestId_NoIncrement == request_counter

\* lines 145-146: the id the next request gets
NextRequestId == request_counter + 1

\* lines 192-195: a call that raises counts one error
CallFailed(m) == [m EXCEPT !.errors = @ + 1]

\* the answers of the control plane to each method
RegisterAnswers == {"ok", "refused", "error"}
HeartbeatAnswers == {"alive", "notalive", "error"}
\* those, and a result that is no dict
AllHeartbeatAnswers == HeartbeatAnswers \cup {"malformed"}
UnregisterAnswers == {"ok", "error"}

\* send of a request by unit of work `who` (lines 145-185, up to the await)
SendRequest(who, method) ==
    /\ request_counter' = NextRequestId
    /\ inflight' = [inflight EXCEPT ![who] = NextRequestId]
    /\ sent' = [sent EXCEPT ![method] = @ + 1]

\* lines 208-209 without the test: registered is set whatever the answer
RegisteredAfter_Always(answer) == TRUE

\* lines 208-209: the value of registered after an answer to system.register
RegisteredAfter(answer) == IF answer = "ok" THEN TRUE ELSE registered

\* register() without lines 213-219: no relay_ready notification is written
RegisterResult_NoNotification(answer) ==
    [registered |-> RegisteredAfter(answer), output |-> output, calls |-> calls,
     metrics |-> IF answer = "error" THEN CallFailed(metrics) ELSE metrics,
     ok |-> answer = "ok"]

\* register() after its request was answered (lines 208-228): the new values
\* of registered, output, calls and metrics, and what it returns
RegisterResult(answer) ==
    IF answer = "ok"
    THEN LET f == ForwardEvent("register", "system.relay_ready", RelayReady, metrics)
         IN [registered |-> RegisteredAfter(answer), output |-> f.output,
             calls |-> f.calls, metrics |-> f.metrics, ok |-> TRUE]
    ELSE [registered |-> RegisteredAfter(answer), output |-> output, calls |-> calls,
          metrics |-> IF answer = "error" THEN CallFailed(metrics) ELSE metrics,
          ok |-> FALSE]

\* What the HTTP exchange of blocking_request (lines 161-182) ends with:
\*   transport   "ok" (a response with a success status), "http_error"
\*               (urlopen raised HTTPError, the body is read at line 176),
\*               "failure" (URLError, timeout, connection reset)
\*   body        the JSON value the body decodes to, or "notjson"
\*   error       the 'error' the test of line 187 looks for: for a dict the
\*               value of that key ("absent": no such key; "null"; "object",
\*               an error object of any code), for a list or a string
\*               whether it contains 'error' ("inside") or not ("absent")
\*   result      the value of the 'result' key of a dict ("absent": no such key)
Response(transport, body, err, result) ==
    [transport |-> transport, body |-> body, error |-> err, result |-> result]

ResultValues == {"absent", "empty", "registered", "refused", "alive", "notalive", "nondict"}

Responses ==
    {Response("failure", "none", "absent", "absent")}
    \cup {Response(tr, "notjson", "absent", "absent") : tr \in {"ok", "http_error"}}
    \cup {Response(tr, "dict", e, res) :
              tr \in {"ok", "http_error"}, e \in {"absent", "null", "object"},
              res \in ResultValues}
    \cup {Response("ok", b, e, "absent") :
              b \in {"list", "string"}, e \in {"absent", "inside"}}
    \cup {Response("ok", b, "absent", "absent") : b \in {"number", "null"}}

\* lines 172-182: blocking_request raises when no response arrives or the
\* body is no JSON document; the body of an HTTPError that is JSON is returned
BlockingRequestRaises(r) == r.transport = "failure" \/ r.body = "notjson"

\* line 187: `'error' in response` raises TypeError for a number or null
ErrorTestRaises(r) == r.body \in {"number", "null"}

\* line 187 testing the value (`if response.get('error')`) instead of the key
HasErrorField_Truthy(r) ==
    r.body \in {"dict", "list", "string"} /\ r.error \notin {"absent", "null"}

\* line 187: the test itself
HasErrorField(r) == r.body \in {"dict", "list", "string"} /\ r.error # "absent"

\* line 190: response.get raises AttributeError for a list or a string
GetResultRaises(r) == r.body \in {"list", "string"}

\* lines 184-195: the call raises to its caller
MakeRequestRaises(r) ==
    BlockingRequestRaises(r) \/ ErrorTestRaises(r) \/ HasErrorField(r) \/ GetResultRaises(r)

\* line 190: response.get('result', {})
MakeRequestResult(r) == IF r.result = "absent" THEN "empty" ELSE r.result

\* make_jsonrpc_request(method, ...) called on a relay that is not running,
\* up to its await (lines 145-185)
MakeRequest(method) ==
    /\ runPc = "start"
    /\ inflight["run"] = 0
    /\ request_counter < MaxCalls
    /\ SendRequest("run", method)
    /\ response' = None
    /\ returned' = None
    /\ UNCHANGED <<cfgVars, running, registered, connVars, metrics, consecutive_failures,
                   reconnect_delay, runPc, hbPc, subPc, setupIdx, output, calls, delivered,
                   budgets, hbHist, subHist, hookVars,
                   registersOK>>

\* the exchange of that call ends with r (lines 184-195)
RequestAnswered(r) ==
    /\ runPc = "start"
    /\ inflight["run"] # 0
    /\ response' = r
    /\ returned' = IF MakeRequestRaises(r) THEN "raised" ELSE MakeRequestResult(r)
    /\ metrics' = IF MakeRequestRaises(r) THEN CallFailed(metrics) ELSE metrics
    /\ inflight' = [inflight EXCEPT !["run"] = 0]
    /\ UNCHANGED <<cfgVars, running, registered, request_counter, connVars,
                   consecutive_failures, reconnect_delay, runPc, hbPc, subPc, setupIdx,
                   output, calls, delivered, sent, budgets, hbHist, subHist, hookVars,
                   registersOK>>

\* ---------------------------------------------------------------- __init__
\* lines 50-86, with the budgets of the run
InitWith(hb, f, e) ==
    /\ debug \in BOOLEAN
    /\ REDIS_AVAILABLE \in BOOLEAN
    /\ running = FALSE
    /\ registered = FALSE
    /\ request_counter = 0
    /\ redis_client = None
    /\ pubsub = None
    /\ subscribed_channels = {}
    /\ metrics = [events_received |-> 0, events_forwarded |-> 0,
                  heartbeats_sent |-> 0, errors |-> 0]
    /\ consecutive_failures = 0
    /\ reconnect_delay = initial_reconnect_delay
    /\ runPc = "start"
    /\ hbPc = "notstarted"
    /\ subPc = "notstarted"
    /\ setupIdx = 0
    /\ inflight = [run |-> 0, hb |-> 0, sub |-> 0]
    /\ output = <<>>
    /\ calls = <<>>
    /\ delivered = <<>>
    /\ sent = [register |-> 0, heartbeat |-> 0, unregister |-> 0]
    /\ clientsOpen = 0
    /\ heartbeatsLeft = hb
    /\ faultsLeft = f
    /\ eventsLeft = e
    /\ hbFailStreak = 0
    /\ hbOwesRetry = FALSE
    /\ hbWaited = 0
    /\ reregOK = TRUE
    /\ subFailStreak = 0
    /\ connectFailStreak = 0
    /\ response = None
    /\ returned = None
    /\ hookInput = <<>>
    /\ hookExit = <<>>
    /\ registersOK = 0

Init == InitWith(MaxHeartbeats, MaxFaults, MaxEvents)

\* ------------------------------------------------- setup_redis_subscription
\* lines 303-305: without the redis package the function returns False at once
SetupBegins == REDIS_AVAILABLE

\* lines 315-323: the client is created (replacing the reference to any
\* earlier one), then ping is awaited
SetupCreateClient ==
    /\ redis_client' = "client"
    /\ clientsOpen' = clientsOpen + 1
    /\ setupIdx' = 0

\* --------------------------------------------------------------------- run
\* line 456: the flag run() sets before anything else
RunningAtStart == TRUE

\* lines 454-459: running = True, then the register request is sent
RunStart ==
    /\ runPc = "start"
    /\ running' = RunningAtStart
    /\ SendRequest("run", "register")
    /\ runPc' = "register"
    /\ UNCHANGED <<aux, cfgVars, registered, connVars, metrics, consecutive_failures,
                   reconnect_delay, hbPc, subPc, setupIdx, output, calls, delivered,
                   budgets, hbHist, subHist>>

\* lines 466-472: is the subscription task created
SubscriptionTaskCreated(redis_available) == redis_available

\* what run() does once setup_redis_subscription returned (lines 466-479):
\* the heartbeat task always, the subscription task only with redis
RunCreateTasks(redis_available) ==
    /\ hbPc' = "start"
    /\ subPc' = IF SubscriptionTaskCreated(redis_available) THEN "start" ELSE "notstarted"
    /\ runPc' = "gather"

\* lines 459-461: does run() go on after the initial registration
RunContinues(registered_ok) == registered_ok

\* lines 459-464: the answer to the initial registration
RunRegisterResponse(answer) ==
    /\ runPc = "register"
    /\ LET r == RegisterResult(answer) IN
        /\ registered' = r.registered
        /\ output' = r.output
        /\ calls' = r.calls
        /\ metrics' = r.metrics
        /\ registersOK' = IF r.ok THEN registersOK + 1 ELSE registersOK
        /\ inflight' = [inflight EXCEPT !["run"] = 0]
        /\ IF ~RunContinues(r.ok)
           THEN /\ runPc' = "exited"
                /\ UNCHANGED <<hbPc, subPc, redis_client, clientsOpen, setupIdx>>
           ELSE IF SetupBegins
                THEN /\ SetupCreateClient
                     /\ runPc' = "setup"
                     /\ UNCHANGED <<hbPc, subPc>>
                ELSE /\ RunCreateTasks(FALSE)
                     /\ UNCHANGED <<redis_client, clientsOpen, setupIdx>>
    /\ UNCHANGED <<rpcVars, hookVars, cfgVars, running, request_counter, pubsub, subscribed_channels,
                   consecutive_failures, reconnect_delay, delivered, sent, budgets,
                   hbHist, subHist>>

\* setup_redis_subscription returned `ok` to its caller: run() creates the
\* tasks (lines 464-475); the subscription loop backs off or listens (358-370)
SetupReturns(ok) ==
    /\ subFailStreak' = IF ok THEN 0 ELSE subFailStreak + 1
    /\ connectFailStreak' = IF ok THEN 0 ELSE connectFailStreak + 1
    /\ IF runPc = "setup"
       THEN /\ RunCreateTasks(ok)
            /\ UNCHANGED reconnect_delay
       ELSE /\ subPc' = IF ok THEN "listen" ELSE "backoff"
            /\ reconnect_delay' = IF ok THEN initial_reconnect_delay ELSE reconnect_delay
            /\ UNCHANGED <<runPc, hbPc>>

InSetup == runPc = "setup" \/ subPc = "setup"

\* lines 323-333: ping answered; on success the pub/sub handle is created and
\* the first pattern is subscribed; on failure the except of 345-347 returns False
SetupPingResponse(ok) ==
    /\ InSetup /\ setupIdx = 0
    /\ IF ok
       THEN /\ pubsub' = "pubsub"
            /\ setupIdx' = 1
            /\ UNCHANGED <<runPc, hbPc, subPc, reconnect_delay, faultsLeft, subFailStreak,
                           connectFailStreak>>
       ELSE /\ faultsLeft > 0
            /\ faultsLeft' = faultsLeft - 1
            /\ SetupReturns(FALSE)
            /\ UNCHANGED <<pubsub, setupIdx>>
    /\ UNCHANGED <<aux, cfgVars, running, registered, request_counter, redis_client,
                   subscribed_channels, clientsOpen, metrics, consecutive_failures,
                   inflight, output, calls, delivered, sent, heartbeatsLeft, eventsLeft,
                   hbHist, reregOK>>

\* lines 331-343: the setupIdx-th psubscribe/subscribe answered
SetupSubscribeResponse(ok) ==
    /\ InSetup /\ setupIdx >= 1
    /\ IF ok
       THEN /\ subscribed_channels' = subscribed_channels \cup {event_channels[setupIdx]}
            /\ UNCHANGED faultsLeft
            /\ IF setupIdx = Len(event_channels)
               THEN /\ SetupReturns(TRUE)
                    /\ UNCHANGED setupIdx
               ELSE /\ setupIdx' = setupIdx + 1
                    /\ UNCHANGED <<runPc, hbPc, subPc, reconnect_delay, subFailStreak,
                                   connectFailStreak>>
       ELSE /\ faultsLeft > 0
            /\ faultsLeft' = faultsLeft - 1
            /\ SetupReturns(FALSE)
            /\ UNCHANGED <<subscribed_channels, setupIdx>>
    /\ UNCHANGED <<aux, cfgVars, running, registered, request_counter, redis_client, pubsub,
                   clientsOpen, metrics, consecutive_failures, inflight, output, calls,
                   delivered, sent, heartbeatsLeft, eventsLeft, hbHist, reregOK>>

\* ---------------------------------------------------------- heartbeat_loop
\* lines 262-299 with a `continue` after line 287: the loop head is reached
\* from the failure branch without its delay and without the interval sleep
LoopHeadFrom_Continue == {"start", "sleep", "sleep5"}

\* lines 262 and 299: the loop head is reached when the task starts and when
\* the interval sleep that ends every iteration is over
LoopHeadFrom == {"start", "sleep"}

\* lines 262-264 (after task start or after the sleep of line 299): the loop
\* condition, then the heartbeat request is sent
HeartbeatTop ==
    /\ hbPc \in LoopHeadFrom
    /\ IF running
       THEN /\ heartbeatsLeft > 0
            /\ heartbeatsLeft' = heartbeatsLeft - 1
            /\ SendRequest("hb", "heartbeat")
            /\ hbWaited' = 0
            /\ hbPc' = "heartbeat"
       ELSE /\ hbPc' = "done"
            /\ UNCHANGED <<request_counter, inflight, sent, heartbeatsLeft, hbWaited>>
    /\ UNCHANGED <<aux, cfgVars, running, registered, connVars, metrics, consecutive_failures,
                   reconnect_delay, runPc, subPc, setupIdx, output, calls, delivered,
                   faultsLeft, eventsLeft, hbFailStreak, hbOwesRetry, subHist>>

\* line 281: the loop counter after a heartbeat call that raised
FailuresAfterError == consecutive_failures + 1

\* line 285 with > for >=
TooManyFailures_Strict(n) == n > max_consecutive_failures

\* line 285: the threshold test
TooManyFailures(n) == n >= max_consecutive_failures

\* line 269: the loop counter after a heartbeat call that returned
FailuresAfterSuccess == 0

\* line 271 with the test turned round (`if result.get('alive')`)
ReportsNotAlive_Inverted(answer) == answer = "alive"

\* line 271: `not result.get('alive')`
ReportsNotAlive(answer) == answer = "notalive"

\* lines 268-269 then 280-281: the call returned a result that is no dict, so
\* line 271 raises after the counter was reset and the handler counts one failure
FailuresAfterMalformed == FailuresAfterSuccess + 1

\* lines 264-290: the heartbeat answered.  "error": the call raised;
\* "malformed": it returned a result that is no dict (null, a string, a list);
\* "alive" and "notalive": it returned a dict
HeartbeatResponse(answer) ==
    /\ hbPc = "heartbeat"
    /\ IF answer = "error"
       THEN /\ metrics' = CallFailed(metrics)
            /\ consecutive_failures' = FailuresAfterError
            /\ hbFailStreak' = hbFailStreak + 1
            /\ inflight' = [inflight EXCEPT !["hb"] = 0]
            /\ IF TooManyFailures(FailuresAfterError)
               THEN registered' = FALSE /\ hbPc' = "sleep5"
               ELSE UNCHANGED registered /\ hbPc' = "sleep"
            /\ UNCHANGED <<request_counter, sent, hbOwesRetry>>
       ELSE IF answer = "malformed"
       THEN /\ metrics' = [metrics EXCEPT !.heartbeats_sent = @ + 1]
            /\ consecutive_failures' = FailuresAfterMalformed
            /\ hbFailStreak' = 0
            /\ inflight' = [inflight EXCEPT !["hb"] = 0]
            /\ IF TooManyFailures(FailuresAfterMalformed)
               THEN registered' = FALSE /\ hbPc' = "sleep5"
               ELSE UNCHANGED registered /\ hbPc' = "sleep"
            /\ UNCHANGED <<request_counter, sent, hbOwesRetry>>
       ELSE /\ metrics' = [metrics EXCEPT !.heartbeats_sent = @ + 1]
            /\ consecutive_failures' = FailuresAfterSuccess
            /\ hbFailStreak' = 0
            /\ IF ReportsNotAlive(answer)
               THEN /\ registered' = FALSE
                    /\ SendRequest("hb", "register")
                    /\ hbOwesRetry' = FALSE
                    /\ hbPc' = "register_notalive"
               ELSE /\ inflight' = [inflight EXCEPT !["hb"] = 0]
                    /\ hbPc' = "sleep"
                    /\ UNCHANGED <<registered, request_counter, sent, hbOwesRetry>>
    /\ UNCHANGED <<aux, cfgVars, running, connVars, reconnect_delay, runPc, subPc, setupIdx,
                   output, calls, delivered, budgets, hbWaited, subHist>>

\* lines 290-292: the fixed delay is over, the register request is sent
HeartbeatSleep5 ==
    /\ hbPc = "sleep5"
    /\ SendRequest("hb", "register")
    /\ hbOwesRetry' = FALSE
    /\ hbWaited' = hbWaited + reregistration_delay
    /\ hbPc' = "register_failures"
    /\ UNCHANGED <<aux, cfgVars, running, registered, connVars, metrics, consecutive_failures,
                   reconnect_delay, runPc, subPc, setupIdx, output, calls, delivered,
                   budgets, hbFailStreak, subHist>>

\* lines 292-296 with the reset of line 294 moved out of the if: the counter
\* is reset whether the re-registration succeeded or not
FailuresAfterRegister_AlwaysReset(ok) == 0

\* lines 292-296 (and 274-275, where the counter is not touched): the loop
\* counter after the re-registration
FailuresAfterRegister(ok) ==
    IF ok /\ hbPc = "register_failures" THEN 0 ELSE consecutive_failures

\* lines 274-275 and 292-299: the re-registration answered, the loop sleeps
HeartbeatRegisterResponse(answer) ==
    /\ hbPc \in {"register_notalive", "register_failures"}
    /\ LET r == RegisterResult(answer) IN
        /\ registered' = r.registered
        /\ output' = r.output
        /\ calls' = r.calls
        /\ metrics' = r.metrics
        /\ registersOK' = IF r.ok THEN registersOK + 1 ELSE registersOK
        /\ consecutive_failures' = FailuresAfterRegister(r.ok)
        /\ hbOwesRetry' = (~r.ok /\ ~registered)
        /\ hbFailStreak' = IF r.ok /\ hbPc = "register_failures" THEN 0 ELSE hbFailStreak
    /\ inflight' = [inflight EXCEPT !["hb"] = 0]
    /\ hbPc' = "sleep"
    /\ UNCHANGED <<rpcVars, hookVars, cfgVars, running, request_counter, connVars, reconnect_delay, runPc,
                   subPc, setupIdx, delivered, sent, budgets, hbWaited, subHist>>

\* -------------------------------------------------- event_subscription_loop
\* lines 361 and 424: the delay used after the next failure
NextReconnectDelay(d) == IF d * 2 < max_reconnect_delay THEN d * 2 ELSE max_reconnect_delay

\* line 356: does the loop head set the subscription up
NeedsSetup == pubsub = None

\* lines 354-370, from the loop condition to the next await, entered with
\* reconnect_delay = d: leave the loop, set the subscription up, or reset the
\* delay and listen
SubscriptionHead(d) ==
    IF ~running
    THEN /\ subPc' = "done"
         /\ reconnect_delay' = d
         /\ UNCHANGED <<redis_client, clientsOpen, setupIdx>>
    ELSE IF NeedsSetup
         THEN IF SetupBegins
              THEN /\ SetupCreateClient
                   /\ subPc' = "setup"
                   /\ reconnect_delay' = d
              ELSE /\ subPc' = "backoff"
                   /\ reconnect_delay' = d
                   /\ UNCHANGED <<redis_client, clientsOpen, setupIdx>>
         ELSE /\ reconnect_delay' = initial_reconnect_delay
              /\ subPc' = "listen"
              /\ UNCHANGED <<redis_client, clientsOpen, setupIdx>>

\* the task starts: the loop head for the first time
SubscriptionStart ==
    /\ subPc = "start"
    /\ SubscriptionHead(reconnect_delay)
    /\ UNCHANGED <<aux, cfgVars, running, registered, request_counter, pubsub,
                   subscribed_channels, metrics, consecutive_failures, runPc, hbPc,
                   inflight, output, calls, delivered, sent, budgets, hbHist, subHist>>

\* lines 360-362: the sleep after a failed setup is over, the delay doubles,
\* `continue` leads to the loop head
SubscriptionBackoff ==
    /\ subPc = "backoff"
    /\ SubscriptionHead(NextReconnectDelay(reconnect_delay))
    /\ UNCHANGED <<aux, cfgVars, running, registered, request_counter, pubsub,
                   subscribed_channels, metrics, consecutive_failures, runPc, hbPc,
                   inflight, output, calls, delivered, sent, budgets, hbHist, subHist>>

\* lines 401-424, up to the sleep: count the error, close and forget the
\* handles (what closing raises is swallowed), then sleep if still running;
\* if not, the loop condition ends the loop
ErrorHandler(m) ==
    /\ metrics' = [m EXCEPT !.errors = @ + 1]
    /\ pubsub' = None
    /\ redis_client' = None
    /\ clientsOpen' = IF redis_client # None THEN clientsOpen - 1 ELSE clientsOpen
    /\ subPc' = IF running THEN "recover_sleep" ELSE "done"
    /\ reregOK' = FALSE
    /\ subFailStreak' = subFailStreak + 1
    /\ UNCHANGED <<subscribed_channels, reconnect_delay, setupIdx, connectFailStreak>>

\* line 374 without the test of the type: every message is handled as a payload
IsPayloadMessage_AnyType(m) == m.type \in {"message", "pmessage", "subscribe", "psubscribe", "unsubscribe"}

\* line 374: is the message a payload message
IsPayloadMessage(m) == m.type \in {"message", "pmessage"}

\* lines 370-396: listen() yields message m
Deliver(m) ==
    /\ subPc = "listen"
    /\ eventsLeft > 0
    /\ eventsLeft' = eventsLeft - 1
    /\ delivered' = Append(delivered, m)
    /\ IF ~running
       THEN /\ subPc' = "done"
            /\ UNCHANGED <<metrics, output, calls, connVars, subHist, reconnect_delay,
                           setupIdx>>
       ELSE IF IsPayloadMessage(m)
            THEN LET f == ForwardEvent("transport", MessageChannel(m), DecodeData(m.data),
                                       [metrics EXCEPT !.events_received = @ + 1])
                 IN /\ output' = f.output
                    /\ calls' = f.calls
                    /\ IF f.raised
                       THEN ErrorHandler(f.metrics)
                       ELSE /\ metrics' = f.metrics
                            /\ UNCHANGED <<subPc, connVars, subHist, reconnect_delay,
                                           setupIdx>>
            ELSE UNCHANGED <<subPc, metrics, output, calls, connVars, subHist,
                             reconnect_delay, setupIdx>>
    /\ UNCHANGED <<aux, cfgVars, running, registered, request_counter, consecutive_failures,
                   runPc, hbPc, inflight, sent, heartbeatsLeft, faultsLeft, hbHist>>

\* line 370 raising: the transport fails while the loop waits in listen()
ListenRaises ==
    /\ subPc = "listen"
    /\ faultsLeft > 0
    /\ faultsLeft' = faultsLeft - 1
    /\ ErrorHandler(metrics)
    /\ UNCHANGED <<aux, cfgVars, running, registered, request_counter, consecutive_failures,
                   runPc, hbPc, inflight, output, calls, delivered, sent, heartbeatsLeft,
                   eventsLeft, hbHist>>

\* line 370 ending: the sequence of listen() ends without raising, which
\* leads to the loop head
ListenEnds ==
    /\ subPc = "listen"
    /\ faultsLeft > 0
    /\ faultsLeft' = faultsLeft - 1
    /\ SubscriptionHead(reconnect_delay)
    /\ UNCHANGED <<aux, cfgVars, running, registered, request_counter, pubsub,
                   subscribed_channels, metrics, consecutive_failures, runPc, hbPc,
                   inflight, output, calls, delivered, sent, heartbeatsLeft, eventsLeft,
                   hbHist, subHist>>

\* line 427 writing True
RegisteredBeforeReregister_True == TRUE

\* line 427: the value the error handler gives registered before it re-registers
RegisteredBeforeReregister == FALSE

\* lines 423-428: the sleep is over; double the delay, clear registered and
\* send the register request
SubscriptionRecoverSleep ==
    /\ subPc = "recover_sleep"
    /\ reconnect_delay' = NextReconnectDelay(reconnect_delay)
    /\ registered' = RegisteredBeforeReregister
    /\ SendRequest("sub", "register")
    /\ subPc' = "register"
    /\ UNCHANGED <<aux, cfgVars, running, connVars, metrics, consecutive_failures, runPc, hbPc,
                   setupIdx, output, calls, delivered, budgets, hbHist, subHist>>

\* lines 428-431: whether register() returned True or False the handler only
\* logs; the loop head follows
SubscriptionRegisterResponse(answer) ==
    /\ subPc = "register"
    /\ LET r == RegisterResult(answer) IN
        /\ registered' = r.registered
        /\ output' = r.output
        /\ calls' = r.calls
        /\ metrics' = r.metrics
        /\ registersOK' = IF r.ok THEN registersOK + 1 ELSE registersOK
        /\ reregOK' = (r.ok \/ reregOK)
    /\ SubscriptionHead(reconnect_delay)
    /\ UNCHANGED <<subFailStreak, connectFailStreak>>
    /\ inflight' = [inflight EXCEPT !["sub"] = 0]
    /\ UNCHANGED <<rpcVars, hookVars, cfgVars, running, request_counter, pubsub, subscribed_channels,
                   consecutive_failures, runPc, hbPc, delivered, sent, budgets, hbHist>>

\* ---------------------------------------------------------------- shutdown
\* line 481 returning as soon as the heartbeat task ended
AllTasksEnded_HeartbeatOnly == hbPc = "done"

\* line 481: gather returns when every task it was given has ended
AllTasksEnded == hbPc = "done" /\ subPc \in {"done", "notstarted"}

\* lines 479-486 with shutdown() called while the tasks are still running
RunGatherReturns_AtOnce ==
    /\ runPc = "gather"
    /\ running' = FALSE
    /\ runPc' = "shutdown"
    /\ UNCHANGED <<aux, cfgVars, registered, request_counter, connVars, metrics,
                   consecutive_failures, reconnect_delay, hbPc, subPc, setupIdx, inflight,
                   output, calls, delivered, sent, budgets, hbHist, subHist>>

\* lines 479-486 and 435-436: gather returned (every task ended), shutdown starts
RunGatherReturns ==
    /\ runPc = "gather"
    /\ AllTasksEnded
    /\ running' = FALSE
    /\ runPc' = "shutdown"
    /\ UNCHANGED <<aux, cfgVars, registered, request_counter, connVars, metrics,
                   consecutive_failures, reconnect_delay, hbPc, subPc, setupIdx, inflight,
                   output, calls, delivered, sent, budgets, hbHist, subHist>>

\* unregister() without the test of lines 232-233
UnregisterSends_Always == TRUE

\* lines 232-233: unregister() sends its request only when registered
UnregisterSends == registered

\* lines 439-447 and 232-249: unsubscribe and close (nothing catches what they
\* raise: the exception leaves shutdown and run), then unregister up to its
\* request, or to the final metrics of line 450 when it returns at once
ShutdownTransport(raises) ==
    /\ runPc = "shutdown"
    /\ IF raises
       THEN /\ pubsub # None \/ redis_client # None
            /\ runPc' = "raised"
            /\ UNCHANGED <<clientsOpen, output, calls, metrics, request_counter, inflight,
                           sent>>
       ELSE /\ clientsOpen' = IF redis_client # None THEN clientsOpen - 1 ELSE clientsOpen
            /\ IF ~UnregisterSends
               THEN /\ runPc' = "done"
                    /\ UNCHANGED <<output, calls, metrics, request_counter, inflight, sent>>
               ELSE LET f == ForwardEvent("unregister", "system.relay_stopping",
                                          RelayStopping, metrics)
                    IN /\ output' = f.output
                       /\ calls' = f.calls
                       /\ metrics' = f.metrics
                       /\ SendRequest("run", "unregister")
                       /\ runPc' = "unregister"
    /\ UNCHANGED <<aux, cfgVars, running, registered, redis_client, pubsub, subscribed_channels,
                   consecutive_failures, reconnect_delay, hbPc, subPc, setupIdx, delivered,
                   budgets, hbHist, subHist>>

\* lines 245-255 and 450: the unregister request answered, final metrics logged
ShutdownUnregisterResponse(answer) ==
    /\ runPc = "unregister"
    /\ registered' = IF answer = "ok" THEN FALSE ELSE registered
    /\ metrics' = IF answer = "ok" THEN metrics ELSE CallFailed(metrics)
    /\ inflight' = [inflight EXCEPT !["run"] = 0]
    /\ runPc' = "done"
    /\ UNCHANGED <<aux, cfgVars, running, request_counter, connVars, consecutive_failures,
                   reconnect_delay, hbPc, subPc, setupIdx, output, calls, delivered, sent,
                   budgets, hbHist, subHist>>

\* -------------------------------------------------------------------- main
\* lines 494-499: what the handler of SIGINT and SIGTERM does
SignalHandler == running' = FALSE

\* a signal arrives while run() is under way and the flag is still set
Signal ==
    /\ runPc \in {"register", "setup", "gather"}
    /\ running
    /\ SignalHandler
    /\ UNCHANGED <<aux, cfgVars, registered, request_counter, connVars, metrics,
                   consecutive_failures, reconnect_delay, runPc, hbPc, subPc, setupIdx,
                   inflight, output, calls, delivered, sent, budgets, hbHist, subHist>>

\* ------------------------------------------- claude_code_hooks.py: the bridge
\* the exit codes of the bridge (module docstring, lines 17-20)
ExitSuccess == 0
ExitError == 1
ExitBlocking == 2

\* the JSON-RPC error code the server uses for a blocked hook (line 309)
HookBlockedCode == -32003

\* the events of the hook system, and one the bridge does not know
HookEvents ==
    {"PreToolUse", "PostToolUse", "UserPromptSubmit", "SessionStart", "SessionEnd",
     "Stop", "SubagentStop", "Notification", "PreCompact", "Custom"}

\* transform_claude_to_claudebench (lines 124-268): the method of an event
Method(event, tool) ==
    CASE event = "PreToolUse" -> "hook.pre_tool"
      [] event = "PostToolUse" ->
             IF tool = "TodoWrite" THEN "hook.todo_write" ELSE "hook.post_tool"
      [] event = "UserPromptSubmit" -> "hook.user_prompt"
      [] event = "SessionStart" -> "system.register"
      [] event = "SessionEnd" -> "system.unregister"
      [] event \in {"Stop", "SubagentStop"} -> "hook.agent_stop"
      [] event = "Notification" -> "hook.notification"
      [] event = "PreCompact" -> "hook.pre_compact"
      [] OTHER -> "hook.custom"

\* What the bridge's HTTP exchange ends with:
\*   transport   "ok", "http_error" (HTTPError), "url_error" (URLError),
\*               "other" (any other exception, a timeout of the read)
\*   body        the JSON value the body decodes to, or "notjson"
\*   error       the 'error' key of a dict: "absent", "nondict" (a string or
\*               null) or "object"
\*   code        the code of the error object (0: any other code, or none)
\*   result      the 'result' key of a dict: "absent", "nondict", "plain" (a
\*               dict without allow and continue), or a dict with one flag
HookResponse(transport, body, err, code, result) ==
    [transport |-> transport, body |-> body, error |-> err, code |-> code,
     result |-> result]

HookResults ==
    {"absent", "nondict", "plain", "allow_true", "allow_false", "continue_true",
     "continue_false"}

HookResponses ==
    {HookResponse(tr, "none", "absent", 0, "absent") :
         tr \in {"http_error", "url_error", "other"}}
    \cup {HookResponse("ok", b, "absent", 0, "absent") :
              b \in {"notjson", "list", "string", "number", "null"}}
    \cup {HookResponse("ok", "dict", "nondict", 0, "absent")}
    \cup {HookResponse("ok", "dict", "object", c, "absent") : c \in {HookBlockedCode, 0}}
    \cup {HookResponse("ok", "dict", "absent", 0, res) : res \in HookResults}

\* lines 320-378: the exit code for a response with a result
ResultExit(method, result) ==
    IF method = "hook.pre_tool"
    THEN IF result = "nondict" THEN ExitError
         ELSE IF result = "allow_false" THEN ExitBlocking ELSE ExitSuccess
    ELSE IF method = "hook.user_prompt"
    THEN IF result = "nondict" THEN ExitError
         ELSE IF result = "continue_false" THEN ExitBlocking ELSE ExitSuccess
    ELSE IF method \in {"hook.post_tool", "hook.todo_write"}
    THEN IF result = "nondict" THEN ExitError ELSE ExitSuccess
    ELSE ExitSuccess

\* ClaudeBenchHookBridge.make_jsonrpc_request (lines 295-404): the exit code
\* it returns with the response
RequestExit(method, r) ==
    IF r.transport # "ok" \/ r.body # "dict" THEN ExitError
    ELSE IF r.error # "absent"
    THEN IF r.error = "nondict" THEN ExitError
         ELSE IF r.code = HookBlockedCode THEN ExitBlocking ELSE ExitError
    ELSE IF r.result = "absent" THEN ExitError
    ELSE ResultExit(method, r.result)

\* What process_hook works on: the text read from stdin ("invalid": no JSON;
\* "nonobject": JSON that is no object), the event and tool it names, the
\* response of the server and whether the git auto-commit raises
HookInputOf(json, event, tool, r, git_raises) ==
    [json |-> json, event |-> event, tool |-> tool, response |-> r,
     git_raises |-> git_raises]

HookInputs ==
    {HookInputOf(j, "Custom", "Edit", HookResponse("ok", "dict", "absent", 0, "plain"), FALSE) :
         j \in {"invalid", "nonobject"}}
    \cup {HookInputOf("object", ev, tl, r, g) :
              ev \in HookEvents, tl \in {"TodoWrite", "Edit"}, r \in HookResponses,
              g \in BOOLEAN}

\* process_hook (lines 620-660): the exit code
ProcessHookExit(in) ==
    IF in.json # "object" THEN ExitError
    ELSE LET method == Method(in.event, in.tool)
             exit_code == RequestExit(method, in.response)
         IN IF method = "hook.post_tool" /\ in.git_raises THEN ExitError ELSE exit_code

\* main (lines 663-708): the process reads its input
HookReads(in) ==
    /\ runPc = "start"
    /\ hookInput = <<>>
    /\ hookInput' = <<in>>
    /\ UNCHANGED <<cfgVars, running, registered, request_counter, connVars, metrics,
                   consecutive_failures, reconnect_delay, runPc, hbPc, subPc, setupIdx,
                   inflight, output, calls, delivered, sent, budgets, hbHist, subHist,
                   rpcVars, hookExit, registersOK>>

\* main (lines 711-712): process_hook runs and the process exits with its code
ProcessHook ==
    /\ hookInput # <<>>
    /\ hookExit = <<>>
    /\ hookExit' = <<ProcessHookExit(hookInput[1])>>
    /\ UNCHANGED <<cfgVars, running, registered, request_counter, connVars, metrics,
                   consecutive_failures, reconnect_delay, runPc, hbPc, subPc, setupIdx,
                   inflight, output, calls, delivered, sent, budgets, hbHist, subHist,
                   rpcVars, hookInput, registersOK>>

\* ------------------------------------------------------------ specifications
\* the steps the relay takes by itself: a task is scheduled, a sleep is over
RelayStep ==
    \/ RunStart
    \/ HeartbeatTop
    \/ HeartbeatSleep5
    \/ SubscriptionStart
    \/ SubscriptionBackoff
    \/ SubscriptionRecoverSleep
    \/ RunGatherReturns

\* the answers of the control plane (urlopen has a timeout of 5 s, line 173)
ControlPlaneStep ==
    \/ \E a \in RegisterAnswers : RunRegisterResponse(a)
    \/ \E a \in HeartbeatAnswers : HeartbeatResponse(a)
    \/ \E a \in RegisterAnswers : HeartbeatRegisterResponse(a)
    \/ \E a \in RegisterAnswers : SubscriptionRegisterResponse(a)
    \/ \E a \in UnregisterAnswers : ShutdownUnregisterResponse(a)

\* the answers of the event transport to connect, subscribe, unsubscribe, close
TransportAnswer ==
    \/ \E ok \in BOOLEAN : SetupPingResponse(ok)
    \/ \E ok \in BOOLEAN : SetupSubscribeResponse(ok)
    \/ \E r \in BOOLEAN : ShutdownTransport(r)

\* what listen() does: a message, an error, the end of the sequence
TransportEvent(msgs) ==
    \/ \E m \in msgs : Deliver(m)
    \/ ListenRaises
    \/ ListenEnds

\* the relay as a whole
Next ==
    \/ RelayStep
    \/ ControlPlaneStep
    \/ TransportAnswer
    \/ TransportEvent(CoreMessages)
    \/ Signal

Spec == Init /\ [][Next]_vars

\* the relay on an event transport that does not fail (connect, subscribe and
\* listen succeed; closing may still raise): the errors of the subscription
\* loop are those its messages raise
SteadyInit == InitWith(MaxHeartbeats, 0, MaxEvents)

SteadyNext ==
    \/ RunStart
    \/ HeartbeatTop
    \/ HeartbeatSleep5
    \/ SubscriptionStart
    \/ SubscriptionRecoverSleep
    \/ RunGatherReturns
    \/ ControlPlaneStep
    \/ TransportAnswer
    \/ \E m \in CoreMessages : Deliver(m)
    \/ Signal

SteadySpec == SteadyInit /\ [][SteadyNext]_vars

\* the hook bridge: one run of the process on every input and response
HookInit == InitWith(0, 0, 0)

HookNext ==
    \/ \E in \in HookInputs : HookReads(in)
    \/ ProcessHook

HookSpec == HookInit /\ [][HookNext]_vars

\* make_jsonrpc_request alone: calls made one after the other on a relay
\* that was constructed and not started, each answered in every way
RpcInit == InitWith(0, 0, 0)

RpcNext ==
    \/ \E method \in DOMAIN sent : MakeRequest(method)
    \/ \E r \in Responses : RequestAnswered(r)

RpcSpec == RpcInit /\ [][RpcNext]_vars

\* startup and the heartbeat loop alone (the subscription task is never
\* scheduled), the control plane answering each heartbeat in every way
HeartbeatInit == InitWith(MaxBeats, 0, 0)

HeartbeatNext ==
    \/ RunStart
    \/ \E a \in RegisterAnswers : RunRegisterResponse(a)
    \/ \E ok \in BOOLEAN : SetupPingResponse(ok)
    \/ \E ok \in BOOLEAN : SetupSubscribeResponse(ok)
    \/ HeartbeatTop
    \/ \E a \in AllHeartbeatAnswers : HeartbeatResponse(a)
    \/ HeartbeatSleep5
    \/ \E a \in RegisterAnswers : HeartbeatRegisterResponse(a)
    \/ Signal

HeartbeatSpec == HeartbeatInit /\ [][HeartbeatNext]_vars

\* startup and the subscription loop alone on a transport that fails again
\* and again (connect, subscribe, listen) and delivers nothing
ReconnectInit == InitWith(0, MaxOutages, 0)

ReconnectNext ==
    \/ RunStart
    \/ \E a \in RegisterAnswers : RunRegisterResponse(a)
    \/ \E ok \in BOOLEAN : SetupPingResponse(ok)
    \/ \E ok \in BOOLEAN : SetupSubscribeResponse(ok)
    \/ SubscriptionStart
    \/ SubscriptionBackoff
    \/ SubscriptionRecoverSleep
    \/ \E a \in RegisterAnswers : SubscriptionRegisterResponse(a)
    \/ ListenRaises
    \/ ListenEnds

ReconnectSpec == ReconnectInit /\ [][ReconnectNext]_vars

\* startup and the subscription loop alone (no heartbeat, no signal, a
\* transport that does not fail), fed with every kind of message: here every
\* error of the loop is due to a message
FeedInit == InitWith(0, 0, MaxFeed)

FeedNext ==
    \/ RunStart
    \/ \E a \in RegisterAnswers : RunRegisterResponse(a)
    \/ \E ok \in BOOLEAN : SetupPingResponse(ok)
    \/ \E ok \in BOOLEAN : SetupSubscribeResponse(ok)
    \/ SubscriptionStart
    \/ SubscriptionRecoverSleep
    \/ \E a \in RegisterAnswers : SubscriptionRegisterResponse(a)
    \/ \E m \in AllMessages : Deliver(m)

FeedSpec == FeedInit /\ [][FeedNext]_vars

\* ------------------------------------------------------------------ claims
\* the forward_event calls that printed, by origin
Printed(origins) == Cardinality({i \in DOMAIN calls : calls[i].origin \in origins})

\* the payload of the decoded event names this relay as its origin
NamesOwnInstance(m) ==
    LET ed == DecodeData(m.data)
    IN ed.shape = "object" /\ ed.payload = "dict" /\ ed.instanceId = instance_id

C2_EnvelopeCarriesChannel ==
    \A i \in DOMAIN calls :
        calls[i].origin = "transport"
        => output[i].data = [channel |-> calls[i].channel, payload |-> calls[i].payload]

\* C3 (as claimed): events_forwarded is the number of transport events that
\* survived filtering and were forwarded.
C3_CountsTransportOnly == metrics.events_forwarded = Printed({"transport"})

\* C3 (amended): events_forwarded counts the forwarded transport events and
\* the relay's own notifications (relay_ready, relay_stopping); once startup
\* succeeded there is at least one notification, so the counter is above the
\* number of forwarded transport events.
C3_CountsNotificationsToo ==
    /\ metrics.events_forwarded = Printed({"transport"}) + Printed({"register", "unregister"})
    /\ runPc \in {"setup", "gather", "shutdown", "unregister", "done", "raised"}
       => metrics.events_forwarded > Printed({"transport"})

C3_Witness ==
    /\ Printed({"transport"}) = 1
    /\ Printed({"register"}) = 1
    /\ metrics.events_forwarded = 2
    /\ sent.heartbeat = 0

\* C4 (as claimed): when shutdown is over, exactly one unregister request was
\* sent and nothing was raised.
C4_UnregisterExactlyOnce ==
    runPc \in {"done", "raised"} => (sent.unregister = 1 /\ runPc = "done")

\* the steps that do not wait for the transport to yield a message
StepWithoutMessage == RelayStep \/ ControlPlaneStep \/ TransportAnswer

\* C5 (as claimed): after a signal cleared running, the relay goes on to
\* complete shutdown without the transport delivering anything: as long as
\* shutdown has not begun, a step that needs no message is possible.
C5_ShutdownNeedsNoMessage ==
    (runPc = "gather" /\ ~running) => ENABLED StepWithoutMessage

\* C6 (as claimed): after a failed initial registration the running flag is
\* not true, no task exists, no connection was opened, and no heartbeat or
\* unregister request was sent.
C6_NeverRunning ==
    runPc = "exited"
    => (/\ ~running
        /\ hbPc = "notstarted" /\ subPc = "notstarted"
        /\ redis_client = None /\ clientsOpen = 0
        /\ sent.heartbeat = 0 /\ sent.unregister = 0)

\* C7: the third consecutive failed heartbeat clears registered and puts the
\* loop into the fixed delay, and the loop leaves that delay only by sending
\* a register request (so no heartbeat request comes before it).
C7_ThirdFailureReregisters ==
    [][/\ (hbFailStreak = 2 /\ hbFailStreak' = 3)
          => (~registered' /\ hbPc' = "sleep5")
       /\ (hbPc = "sleep5" /\ hbPc' # "sleep5")
          => (/\ hbPc' = "register_failures"
              /\ sent'.register = sent.register + 1
              /\ sent'.heartbeat = sent.heartbeat)]_vars

C7_Witness == hbFailStreak = 3 /\ hbPc = "register_failures" /\ ~registered

\* C8 (as claimed): when a re-registration by the heartbeat loop failed and
\* registered is still false, the next iteration retries registration; in
\* particular, when the control plane answers the heartbeat of that iteration
\* successfully, the loop sends a register request before it sleeps.
C8_NextIterationRetries ==
    [][(/\ hbOwesRetry /\ ~registered
        /\ hbPc = "heartbeat" /\ hbPc' # "heartbeat"
        /\ metrics'.heartbeats_sent = metrics.heartbeats_sent + 1)
       => (hbPc' = "register_notalive" /\ sent'.register = sent.register + 1)]_vars

\* C9 (as claimed): after an error of the subscription loop no transport
\* event is received before the loop's re-registration has succeeded.
C9_NoEventBeforeReregistration ==
    [][metrics'.events_received > metrics.events_received => reregOK]_vars

\* C10 (as claimed): every failed connect or subscribe, the one at startup
\* included, is retried with backoff while running is true: the failure puts
\* the subscription loop into its backoff sleep, and when the sleep is over
\* and running is still true the loop connects again.
C10_EveryFailureRetried ==
    [][/\ (InSetup /\ faultsLeft' < faultsLeft /\ running) => subPc' = "backoff"
       /\ (subPc = "backoff" /\ subPc' # "backoff" /\ running)
          => (subPc' = "setup" /\ clientsOpen' = clientsOpen + 1)]_vars

Min(a, b) == IF a < b THEN a ELSE b

\* the subscription loop begins a sleep (after a failed setup or in its error handler)
SubscriptionSleepBegins ==
    subPc' \in {"backoff", "recover_sleep"} /\ subPc' # subPc

\* C11 (as claimed): the delay slept after the N-th consecutive failure of
\* the subscription loop (N from 0, counted since the last successful
\* reconnect) is min(1 * 2^N, 30); so after a successful reconnect the next
\* failure sleeps 1 again.
C11_DelayIsPowerOfTwo ==
    [][SubscriptionSleepBegins
       => reconnect_delay' = Min(initial_reconnect_delay * 2^subFailStreak,
                                 max_reconnect_delay)]_vars

\* C12 (as claimed): the first failing connect since the last success, the
\* one at startup included, is followed by a wait of 1 and the second by a
\* wait of 2 before the next attempt.
C12_WaitsOneThenTwo ==
    [][(InSetup /\ setupIdx = 0 /\ faultsLeft' < faultsLeft /\ connectFailStreak < 2)
       => (subPc' = "backoff" /\ reconnect_delay' = 2^connectFailStreak)]_vars

\* C13 (as claimed): while running is true a heartbeat request is attempted
\* at least once per configured interval, whatever the previous heartbeat's
\* outcome: when the loop begins its interval sleep it has not slept since
\* the last heartbeat request, so the sleep ends one interval after it.
C13_HeartbeatEveryInterval ==
    (running /\ hbPc = "sleep") => hbWaited + heartbeat_interval <= heartbeat_interval

\* the data of the output lines written for transport events, in output order
TransportLines ==
    LET idx == SelectSeq([i \in 1..Len(calls) |-> i],
                         LAMBDA i : calls[i].origin = "transport")
    IN [k \in 1..Len(idx) |-> output[idx[k]].data]

\* the decoded payloads of the delivered payload messages that are not
\* filtered, in delivery order
Survivors ==
    LET s == SelectSeq(delivered,
                       LAMBDA m : IsPayloadMessage(m) /\ Prints(DecodeData(m.data)))
    IN [k \in 1..Len(s) |-> DecodeData(s[k].data)]

\* C14: the output lines for transport events are, in the same order, the
\* delivered payload messages that survived filtering: none is emitted
\* twice, reordered, merged with another or left out.
C14_ForwardedInOrder == TransportLines = Survivors

C14_Witness ==
    /\ Len(TransportLines) = 2
    /\ TransportLines[1] # TransportLines[2]
    /\ Len(delivered) = 2
    /\ Len(output) > 2

\* the data of message m is a string that is no JSON document
Undecodable(m) == IsPayloadMessage(m) /\ m.data.enc = "text"

\* C15: a delivered message whose data is not decodable JSON is forwarded as
\* one line whose data is {raw: <the original string>}; events_received and
\* events_forwarded grow by one, errors stays, and the loop goes on listening
\* on the same connection.
C15_UndecodableForwardedRaw ==
    [][\A m \in AllMessages :
         (/\ subPc = "listen" /\ running
          /\ delivered' = Append(delivered, m)
          /\ Undecodable(m))
         => (/\ Len(output') = Len(output) + 1
             /\ output'[Len(output')].data.shape = "object"
             /\ output'[Len(output')].data.raw = m.data.text
             /\ metrics'.events_received = metrics.events_received + 1
             /\ metrics'.events_forwarded = metrics.events_forwarded + 1
             /\ metrics'.errors = metrics.errors
             /\ subPc' = "listen"
             /\ pubsub' = pubsub /\ redis_client' = redis_client
             /\ registered' = registered)]_vars

C15_Witness ==
    /\ Len(delivered) = 1 /\ Undecodable(delivered[1])
    /\ Len(output) = 2 /\ output[2].data.raw = "not json"
    /\ metrics.events_received = 1 /\ metrics.events_forwarded = 2
    /\ metrics.errors = 0
    /\ subPc = "listen" /\ debug

\* the data of message m is a JSON document and neither filter of
\* forward_event applies to its value
WellFormedUnfiltered(m) ==
    /\ IsPayloadMessage(m) /\ m.data.enc = "json"
    /\ ~FilteredOwnInstance(m.data.value) /\ ~FilteredRelayCommand(m.data.value)

\* C16 (as claimed): for every delivered message whose data is well-formed
\* JSON of any shape and that is not filtered, exactly one line is written
\* and the loop keeps listening on the same connection: errors is not
\* incremented and registered is not cleared, with debug on or off.
C16_AnyShapeForwarded ==
    [][\A m \in AllMessages :
         (/\ subPc = "listen" /\ running
          /\ delivered' = Append(delivered, m)
          /\ WellFormedUnfiltered(m))
         => (/\ Len(output') = Len(output) + 1
             /\ metrics'.errors = metrics.errors
             /\ subPc' = "listen"
             /\ pubsub' = pubsub /\ redis_client' = redis_client
             /\ registered' = registered)]_vars

\* C17: each request gets an id strictly greater than every id issued before
\* it (the ids issued so far are 1..request_counter), so the requests in
\* flight at the same time, whichever loop or shutdown sent them, have
\* different ids.
C17_IdsStrictlyIncrease ==
    [][/\ request_counter' >= request_counter
       /\ \A w \in DOMAIN inflight : inflight'[w] <= request_counter'
       /\ \A v, w \in DOMAIN inflight :
              (v # w /\ inflight'[v] # 0) => inflight'[v] # inflight'[w]
       /\ sent' # sent
          => /\ request_counter' = request_counter + 1
             /\ \E w \in DOMAIN inflight :
                    /\ inflight'[w] = request_counter'
                    /\ inflight'[w] > request_counter
                    /\ \A v \in DOMAIN inflight : inflight[v] < inflight'[w]]_vars

C17_Witness ==
    /\ inflight["hb"] > 0 /\ inflight["sub"] > 0
    /\ inflight["hb"] # inflight["sub"]
    /\ request_counter >= 3

\* a call made on its own was answered in this step
CallAnswered == runPc = "start" /\ inflight["run"] # 0 /\ inflight'["run"] = 0

\* C18: a call gives its caller a result only when the response carries no
\* error field; a response with an error field (whatever it holds) and a
\* transport failure make the call raise; a call that raises increments
\* errors by exactly one and a call that returns leaves it alone.
C18_ErrorFieldIsFailure ==
    [][CallAnswered
       => /\ returned' # "raised" => response'.error = "absent"
          /\ response'.error # "absent" => returned' = "raised"
          /\ response'.transport = "failure" => returned' = "raised"
          /\ returned' = "raised" => metrics'.errors = metrics.errors + 1
          /\ returned' # "raised"
             => /\ metrics'.errors = metrics.errors
                /\ returned' = (IF response'.result = "absent" THEN "empty"
                                ELSE response'.result)]_vars

C18_Witness ==
    /\ request_counter = 2 /\ inflight["run"] = 0
    /\ response.body = "dict" /\ response.error = "null" /\ response.result = "registered"
    /\ returned = "raised"
    /\ metrics.errors = 1

\* the server blocked the call: the response says so in its result or by the
\* error code reserved for it
ServerBlocked(in) ==
    /\ in.response.transport = "ok" /\ in.response.body = "dict"
    /\ \/ in.response.error = "object" /\ in.response.code = HookBlockedCode
       \/ in.response.result \in {"allow_false", "continue_false"}

\* C20 (as claimed): process_hook returns the blocking exit code 2 only for
\* hook.pre_tool and hook.user_prompt calls that the server blocked; for
\* every other method and every failure it returns another code.
C20_BlockingOnlyForPreToolAndPrompt ==
    hookExit = <<ExitBlocking>>
    => /\ hookInput[1].json = "object"
       /\ Method(hookInput[1].event, hookInput[1].tool)
              \in {"hook.pre_tool", "hook.user_prompt"}
       /\ ServerBlocked(hookInput[1])

\* C19 (as claimed): no failure of a control-plane call or of the event
\* transport escapes from run(), and while running is true neither loop has
\* ended (a subscription loop that was started is still iterating).
C19_NothingEscapesRun ==
    /\ runPc # "raised"
    /\ (running /\ runPc = "gather") => (hbPc # "done" /\ subPc # "done")

\* the method the module docstring of the bridge documents for each
\* supported hook event (Hook Types Supported)
DocumentedMethod(event, tool) ==
    CASE event = "PreToolUse" -> "hook.pre_tool"
      [] event = "PostToolUse" ->
             IF tool = "TodoWrite" THEN "hook.todo_write" ELSE "hook.post_tool"
      [] event = "UserPromptSubmit" -> "hook.user_prompt"
      [] event = "SessionStart" -> "system.register"
      [] event = "SessionEnd" -> "system.unregister"
      [] event \in {"Stop", "SubagentStop"} -> "system.agent_stop"
      [] event = "Notification" -> "system.notification"
      [] event = "PreCompact" -> "system.pre_compact"

SupportedHookEvents == HookEvents \ {"Custom"}

\* C21 (as claimed): for every supported hook event the bridge has processed,
\* the method transform_claude_to_claudebench chose is the documented one.
C21_MethodsAsDocumented ==
    (/\ hookExit # <<>> /\ hookInput[1].json = "object"
     /\ hookInput[1].event \in SupportedHookEvents)
    => Method(hookInput[1].event, hookInput[1].tool)
           = DocumentedMethod(hookInput[1].event, hookInput[1].tool)

\* line 450 was reached: shutdown() logged the final metrics
FinalMetricsEmitted == runPc = "done"

\* C22 (as claimed): the unregister request is sent only by the shutdown step
\* that has unsubscribed and closed the transport, final metrics are emitted
\* only after the unregister attempt, and every shutdown that begins goes on
\* to the unregister attempt and the final metrics.
C22_ShutdownOrder ==
    [][/\ sent'.unregister > sent.unregister
          => (runPc = "shutdown" /\ runPc' = "unregister"
              /\ (redis_client # None => clientsOpen' = clientsOpen - 1))
       /\ (FinalMetricsEmitted' /\ ~FinalMetricsEmitted)
          => (runPc = "unregister" \/ (runPc = "shutdown" /\ ~UnregisterSends))
       /\ (runPc = "shutdown" /\ runPc' # "shutdown")
          => (runPc' = "unregister" \/ FinalMetricsEmitted')]_vars

\* the iteration of listen() fails in this step: the transport raises or the
\* sequence ends
IterationFails == subPc = "listen" /\ running /\ faultsLeft' < faultsLeft

\* C23 (as claimed): when the iteration of listen() fails while running is
\* true, the sequence ending without raising included, the loop releases the
\* connection, counts one error and sleeps; when the sleep is over it doubles
\* the delay (capped), clears registered and sends a register request; so it
\* does not go back to listen without sleeping.
C23_ErrorRecovery ==
    [][/\ IterationFails
          => (/\ pubsub' = None /\ redis_client' = None
              /\ metrics'.errors = metrics.errors + 1
              /\ reconnect_delay' = reconnect_delay
              /\ subPc' = "recover_sleep")
       /\ (subPc = "recover_sleep" /\ subPc' # "recover_sleep")
          => (/\ reconnect_delay' = Min(reconnect_delay * 2, max_reconnect_delay)
              /\ ~registered'
              /\ sent'.register = sent.register + 1
              /\ subPc' = "register")]_vars

\* C24: a heartbeat answered not-alive clears registered and sends a register
\* request in the same step, before any sleep; the call counts as a successful
\* heartbeat (heartbeats_sent + 1, failure counter 0, errors unchanged); and
\* until that register request is answered the loop sends no heartbeat.
C24_NotAliveReregistersAtOnce ==
    [][/\ HeartbeatResponse("notalive")
          => (/\ ~registered'
              /\ sent'.register = sent.register + 1
              /\ inflight'["hb"] = request_counter'
              /\ hbPc' = "register_notalive"
              /\ hbWaited' = 0
              /\ metrics'.heartbeats_sent = metrics.heartbeats_sent + 1
              /\ consecutive_failures' = 0
              /\ metrics'.errors = metrics.errors)
       /\ hbPc = "register_notalive"
          => (sent'.heartbeat = sent.heartbeat /\ hbPc' \in {"register_notalive", "sleep"})]_vars

C24_Witness ==
    /\ hbPc = "register_notalive" /\ ~registered
    /\ sent.heartbeat = 3 /\ metrics.errors = 2 /\ metrics.heartbeats_sent = 1
    /\ consecutive_failures = 0

\* the heartbeat request of the loop is answered in this step
HeartbeatAnswered == hbPc = "heartbeat" /\ hbPc' # "heartbeat"

\* C25 (as claimed): a heartbeat call that returns a result leaves the
\* failure counter at 0 and adds one to heartbeats_sent; a call that raises
\* adds one to the failure counter and to errors and leaves heartbeats_sent.
C25_HeartbeatAccounting ==
    [][HeartbeatAnswered
       => /\ hbFailStreak' = 0
             => (/\ metrics'.heartbeats_sent = metrics.heartbeats_sent + 1
                 /\ consecutive_failures' = 0)
          /\ hbFailStreak' # 0
             => (/\ consecutive_failures' = consecutive_failures + 1
                 /\ metrics'.errors = metrics.errors + 1
                 /\ metrics'.heartbeats_sent = metrics.heartbeats_sent)]_vars

\* C26: every heartbeat request but the first is sent by the step that ends
\* the interval sleep, and every way a heartbeat iteration goes on (the call
\* returned, reported not-alive, raised, a re-registration succeeded or
\* failed) leads to that sleep before the loop head.
C26_SleepsBetweenHeartbeats ==
    [][/\ sent'.heartbeat > sent.heartbeat
          => (hbPc = "sleep" \/ (hbPc = "start" /\ sent.heartbeat = 0))
       /\ HeartbeatAnswered => hbPc' \in {"sleep", "sleep5", "register_notalive"}
       /\ (hbPc = "sleep5" /\ hbPc' # "sleep5") => hbPc' = "register_failures"
       /\ (hbPc \in {"register_notalive", "register_failures"} /\ hbPc' # hbPc)
          => hbPc' = "sleep"]_vars

C26_Witness ==
    /\ sent.heartbeat = 4 /\ hbPc = "heartbeat"
    /\ consecutive_failures = 3 /\ sent.register = 2 /\ metrics.errors = 4

\* C27: a delivered control message (an acknowledgement of subscribe,
\* psubscribe or unsubscribe) writes no line and changes no counter; the loop
\* goes on listening on the same connection.
C27_ControlMessagesConsumed ==
    [][\A m \in ControlMessages :
         (subPc = "listen" /\ delivered' = Append(delivered, m))
         => (/\ output' = output
             /\ calls' = calls
             /\ metrics' = metrics
             /\ pubsub' = pubsub /\ redis_client' = redis_client
             /\ subPc' = (IF running THEN "listen" ELSE "done"))]_vars

C27_Witness ==
    /\ Len(delivered) = 2
    /\ delivered[1] \in ControlMessages /\ delivered[2] \in ControlMessages
    /\ delivered[1] # delivered[2]
    /\ metrics.events_received = 0 /\ metrics.events_forwarded = 1 /\ Len(output) = 1
    /\ subPc = "listen"

\* the decoded event of message m has a payload.params.command that contains
\* the marker 'claude_event_relay.py'
CarriesRelayMarker(m) == IsPayloadMessage(m) /\ DecodeData(m.data).command = "marker"

\* the decoded event of message m is an object with a payload dict and no
\* params.command
NoCommandField(m) ==
    /\ IsPayloadMessage(m)
    /\ DecodeData(m.data).shape = "object" /\ DecodeData(m.data).payload = "dict"
    /\ DecodeData(m.data).command = "absent"

ConfiguredPatterns == {event_channels[i] : i \in DOMAIN event_channels}

\* C29 (as claimed): subscribed_channels is empty whenever the relay holds no
\* transport connection, and when the subscription loop listens after a
\* successful connect and subscribe it is exactly the configured pattern set.
C29_SubscriptionSetLifecycle ==
    /\ (redis_client = None /\ pubsub = None) => subscribed_channels = {}
    /\ (subPc = "listen" /\ connectFailStreak = 0 /\ pubsub # None)
       => subscribed_channels = ConfiguredPatterns

\* C30 (as claimed): the subscription loop listens only when its last connect
\* and subscribe succeeded as a whole, and as long as the last attempt is a
\* failed one the loop, once past the backoff sleep, works with a delay that
\* was doubled and not reset.
C30_ListensOnlyFullySubscribed ==
    /\ subPc = "listen" => connectFailStreak = 0
    /\ (connectFailStreak > 0 /\ subPc \in {"setup", "listen", "recover_sleep", "register"})
       => reconnect_delay > initial_reconnect_delay

\* a register call returned registered=true in this step: register() wrote
\* its relay_ready notification
RegisterSucceeds ==
    /\ Len(output') = Len(output) + 1
    /\ output'[Len(output')].data = RelayReady
    /\ \E w \in DOMAIN inflight : inflight[w] # 0 /\ inflight'[w] = 0

\* the heartbeat loop clears registered: the heartbeat reported not-alive, or
\* the failure counter reached the threshold
HeartbeatClears ==
    /\ hbPc = "heartbeat"
    /\ \/ hbPc' = "register_notalive"
       \/ hbPc' = "sleep5" /\ consecutive_failures' >= max_consecutive_failures

\* C31 (as claimed): registered becomes true only by a register call that
\* returned registered=true, and becomes false only when a heartbeat reports
\* not-alive or the heartbeat failure counter reaches the threshold.
C31_OnlyHeartbeatClears ==
    [][/\ (~registered /\ registered') => RegisterSucceeds
       /\ (registered /\ ~registered') => HeartbeatClears]_vars

\* C31 (amended): registered becomes true only by a register call that
\* returned registered=true; it becomes false only when a heartbeat reports
\* not-alive, when the heartbeat failure counter reaches the threshold, when
\* the subscription loop's error handler clears it before re-registering, or
\* when the unregister request of shutdown succeeded.
C31_RegisteredTransitions ==
    [][/\ (~registered /\ registered') => RegisterSucceeds
       /\ (registered /\ ~registered')
          => \/ HeartbeatClears
             \/ subPc = "recover_sleep" /\ subPc' = "register"
             \/ runPc = "unregister" /\ runPc' = "done"]_vars

C31_Witness ==
    /\ subPc = "register" /\ ~registered
    /\ sent.register = 2 /\ hbPc = "sleep" /\ hbFailStreak = 0
    /\ metrics.heartbeats_sent = 1

\* a step of the heartbeat loop or of the subscription loop
LoopStep == hbPc' # hbPc \/ subPc' # subPc \/ inflight'["hb"] # inflight["hb"]
            \/ inflight'["sub"] # inflight["sub"]

\* C32: in every interleaving of the two loops, a loop step that is not the
\* arrival of a successful register response never turns registered from
\* false to true; with both loops in their failure handling at once,
\* registered stays false until one of the register calls succeeds.
C32_LoopsOnlyWriteFalse ==
    [][/\ (LoopStep /\ ~RegisterSucceeds) => (registered' => registered)
       /\ (/\ hbPc \in {"sleep5", "register_failures"}
           /\ subPc \in {"recover_sleep", "register"}
           /\ ~registered /\ ~RegisterSucceeds) => ~registered']_vars

C32_Witness ==
    /\ hbPc = "register_failures" /\ subPc = "register"
    /\ inflight["hb"] # 0 /\ inflight["sub"] # 0
    /\ ~registered /\ running

\* the step creates, subscribes, reads or closes the event transport
TransportTouched ==
    \/ redis_client' # redis_client \/ pubsub' # pubsub
    \/ clientsOpen' # clientsOpen \/ subscribed_channels' # subscribed_channels
    \/ delivered' # delivered

\* the subscription task exists and has not ended
SubscriptionLoopActive ==
    runPc = "gather" /\ subPc \in {"start", "backoff", "setup", "listen", "recover_sleep", "register"}

\* C33 (as claimed): every step that creates, reads or closes the event
\* transport is a step of the subscription loop.
C33_OnlySubscriptionLoop ==
    [][TransportTouched => SubscriptionLoopActive]_vars

\* C33 (amended): the event transport is created and subscribed by run() at
\* startup, before any task exists, and by the subscription loop when it
\* reconnects; it is read only by the subscription loop; it is closed by the
\* subscription loop's error handler and by shutdown(), which runs when both
\* tasks have ended; no step of the heartbeat loop touches it.
C33_TransportOwnership ==
    [][/\ TransportTouched
          => \/ /\ runPc \in {"register", "setup"}
                /\ hbPc = "notstarted" /\ subPc = "notstarted"
                /\ delivered' = delivered
             \/ /\ SubscriptionLoopActive
                /\ hbPc' = hbPc /\ inflight'["hb"] = inflight["hb"]
             \/ /\ runPc = "shutdown"
                /\ hbPc = "done" /\ subPc \in {"done", "notstarted"}
                /\ delivered' = delivered
       /\ delivered' # delivered => (SubscriptionLoopActive /\ subPc = "listen")]_vars

C33_Witness ==
    /\ runPc = "done" /\ clientsOpen = 0 /\ redis_client # None
    /\ Len(delivered) = 1 /\ subPc = "done" /\ hbPc = "done"

\* the values min(1 * 2^k, 30) takes
DelayValues == {1, 2, 4, 8, 16, max_reconnect_delay}

\* C34 (as claimed): the reconnect delay only takes the values 1, 2, 4, 8, 16
\* and 30; whenever the loop goes to listen the delay is 1, and the delay is
\* set back to 1 only when the loop is about to listen on a subscription whose
\* last connect and subscribe succeeded.
C34_DelayValuesAndReset ==
    [][/\ reconnect_delay' \in DelayValues
       /\ (subPc' = "listen" /\ subPc # "listen") => reconnect_delay' = initial_reconnect_delay
       /\ (reconnect_delay' = initial_reconnect_delay /\ reconnect_delay # initial_reconnect_delay)
          => (subPc' = "listen" /\ connectFailStreak' = 0)]_vars

\* C35: events_forwarded is the number of lines forward_event wrote, the
\* relay_ready and relay_stopping notifications included, and it exceeds
\* events_received by no more than the successful register calls plus the
\* unregister attempts.
C35_ForwardedCountsEveryLine ==
    /\ metrics.events_forwarded = Len(output)
    /\ metrics.events_forwarded - metrics.events_received <= registersOK + sent.unregister
    /\ Printed({"transport"}) <= metrics.events_received

C35_Witness ==
    /\ runPc = "done" /\ sent.unregister = 1 /\ registersOK = 2
    /\ metrics.events_received = 1
    /\ metrics.events_forwarded = 4 /\ Len(output) = 4

\* a register call is answered in this step (the initial one, or a
\* re-registration of either loop)
RegisterAnswered ==
    \/ runPc = "register" /\ runPc' # "register"
    \/ hbPc \in {"register_notalive", "register_failures"} /\ hbPc' = "sleep"
    \/ subPc = "register" /\ inflight["sub"] # 0 /\ inflight'["sub"] = 0

\* C36: a register call that succeeds sets registered and writes exactly one
\* relay_ready notification; a register call that fails writes nothing and
\* leaves registered as it was.
C36_RegisterNotifiesOnce ==
    [][/\ registersOK' # registersOK => RegisterAnswered
       /\ RegisterAnswered
          => IF registersOK' = registersOK + 1
             THEN /\ registered'
                  /\ output' = Append(output, [timestamp |-> "now", data |-> RelayReady])
                  /\ metrics'.events_forwarded = metrics.events_forwarded + 1
             ELSE /\ registersOK' = registersOK
                  /\ output' = output
                  /\ registered' = registered
                  /\ metrics'.events_forwarded = metrics.events_forwarded]_vars

C36_Witness ==
    /\ registersOK = 3 /\ sent.register = 3 /\ registered
    /\ sent.heartbeat = 1 /\ metrics.heartbeats_sent = 1 /\ metrics.errors = 1
    /\ Printed({"register"}) = 3

\* C37: unregister() sends its request, and writes relay_stopping, only when
\* registered is true; called with registered false it does neither and
\* returns; an answered request clears registered, a failed one leaves it
\* true and counts one error, and in both cases unregister() returns to
\* shutdown(), which goes on to its end.
C37_UnregisterOnlyWhenRegistered ==
    [][/\ sent'.unregister # sent.unregister
          => (/\ registered /\ sent'.unregister = sent.unregister + 1
              /\ output' = Append(output, [timestamp |-> "now", data |-> RelayStopping])
              /\ runPc' = "unregister")
       /\ (runPc = "shutdown" /\ runPc' \notin {"shutdown", "raised"} /\ ~registered)
          => (sent' = sent /\ output' = output /\ runPc' = "done")
       /\ (runPc = "unregister" /\ runPc' # "unregister")
          => (/\ runPc' = "done" /\ output' = output
              /\ IF metrics'.errors = metrics.errors
                 THEN ~registered'
                 ELSE registered' /\ metrics'.errors = metrics.errors + 1)]_vars

C37_Witness ==
    /\ runPc = "done" /\ sent.unregister = 1 /\ registered
    /\ output[Len(output)].data = RelayStopping

\* C38: a failed re-registration of the failure branch leaves the failure
\* counter where it was, and with the counter at or above the threshold every
\* failed heartbeat clears registered and leads, through the fixed delay, to
\* another register request.
C38_KeepsReregistering ==
    [][/\ (hbPc = "register_failures" /\ hbPc' = "sleep" /\ registersOK' = registersOK)
          => (/\ consecutive_failures' = consecutive_failures
              /\ consecutive_failures' >= max_consecutive_failures)
       /\ (/\ HeartbeatAnswered /\ consecutive_failures >= max_consecutive_failures
           /\ metrics'.errors = metrics.errors + 1)
          => (/\ hbPc' = "sleep5" /\ ~registered'
              /\ consecutive_failures' = consecutive_failures + 1)
       /\ (hbPc = "sleep5" /\ hbPc' # "sleep5")
          => (/\ hbPc' = "register_failures"
              /\ sent'.register = sent.register + 1
              /\ hbWaited' = hbWaited + reregistration_delay)]_vars

C38_Witness ==
    /\ hbPc = "register_failures" /\ consecutive_failures = 4
    /\ sent.register = 3 /\ registersOK = 1 /\ ~registered

\* C39 (as claimed): at most one event-transport client is open at any time,
\* and setup_redis_subscription creates a client only when every client
\* created before has been closed.
C39_OneClientAtATime ==
    [][/\ clientsOpen' <= 1
       /\ clientsOpen' > clientsOpen => clientsOpen = 0]_vars

\* shutdown() is at or past its unregister request
UnregisterIssued == runPc \in {"unregister", "done"}

\* C40: shutdown() runs only when both loops have ended, and once it has
\* issued the unregister request no heartbeat or register request is sent, no
\* message is received and no line is written.
C40_LoopsEndedBeforeShutdown ==
    [][/\ runPc' \in {"shutdown", "unregister", "done", "raised"}
          => (/\ hbPc' = "done" /\ subPc' \in {"done", "notstarted"}
              /\ inflight'["hb"] = 0 /\ inflight'["sub"] = 0)
       /\ UnregisterIssued
          => (/\ sent'.heartbeat = sent.heartbeat /\ sent'.register = sent.register
              /\ delivered' = delivered /\ output' = output
              /\ metrics'.events_forwarded = metrics.events_forwarded)]_vars

C40_Witness ==
    /\ runPc = "unregister" /\ inflight["run"] # 0
    /\ hbPc = "done" /\ subPc = "done"
    /\ sent.heartbeat >= 1 /\ Printed({"transport"}) = 1
====
